---- MODULE Spec2Model ----
(***************************************************************************)
(* Model of drivers/iommu/msm_dma_iommu_mapping.c: the cache of IOMMU      *)
(* mappings of dma-buf buffers.  An rb-tree (iommu_root, rb_tree_lock)     *)
(* maps a buffer to its msm_iommu_meta; each meta owns a list of           *)
(* msm_iommu_map records, one per device, each with its own refcount.      *)
(*                                                                         *)
(* Granularity.  A thread takes one step per shared-memory access that     *)
(* other threads can observe in between: every atomic refcount operation   *)
(* done outside a lock, every acquisition of a meta's rwlock, and the body *)
(* of each critical section up to its unlock.  The short critical sections *)
(* on rb_tree_lock (lookup, insert, erase) are single steps; the read lock *)
(* that msm_dma_unmap_all_for_dev holds across its sweep is explicit.      *)
(*                                                                         *)
(* Freed memory.  kfree() leaves a record in state "freed" with its last   *)
(* contents for as long as some thread or record still points to it; a     *)
(* record nothing points to returns to the allocator ("unalloc").  A       *)
(* thread that touches a freed record either keeps going on the stale      *)
(* contents or faults; both outcomes set uaf.                              *)
(***************************************************************************)
EXTENDS Integers, Sequences, FiniteSets, TLC

\* ------------------------------------------------------------------ bounds
NThreads == 2
NBufs == 2
NDevs == 2
NAddrs == 2
MaxRecs == 3
MaxOps == 3
MaxOpsSerial == 3
MaxOpsLong == 4
MaxOpsLog == 4
MaxOpsFair == 3

\* ------------------------------------------------------- program constants
NULL == 0
EINVAL == 22

Threads == 1..NThreads
Buffers == 1..NBufs
Devices == 1..NDevs
Addrs == 1..NAddrs

\* what callers pass: the scatterlist of a dma_buf has that buffer's number of
\* segments, and a device always transfers in its own direction
NentsOf(buf) == buf
DirOf(dev) == IF dev = 1 THEN "DMA_TO_DEVICE" ELSE "DMA_FROM_DEVICE"
MetaIds == 1..MaxRecs
MapIds == 1..MaxRecs

VARIABLES
  th,            \* per thread: program counter, arguments and locals
  meta,          \* the msm_iommu_meta records
  map,           \* the msm_iommu_map records
  tree,          \* iommu_root: the metas in key order (in-order walk)
  rb_tree_lock,  \* the threads holding rb_tree_lock for read
  uaf,           \* some thread touched a freed record
  dfree,         \* some record was erased or freed twice
  nops,          \* operations started so far
  limit,         \* operations the run may start
  serial,        \* operations run one at a time (no overlap)
  logging,       \* the run keeps log, and uses one buffer and one device
  pre,           \* serial runs: the records as they were when the call began
  log            \* logging runs: what has been called and returned so far

vars == <<th, meta, map, tree, rb_tree_lock, uaf, dfree, nops, limit, serial, logging, pre, log>>
hk == <<nops, limit, serial, logging, pre, log>>

\* --------------------------------------------------------------- records
NoSgl == [dma_address |-> 0, dma_length |-> 0]

\* struct msm_iommu_meta; wr/rd are the state of its rwlock
BlankMeta ==
  [st |-> "unalloc", buffer |-> NULL, refcount |-> 0, maps |-> <<>>,
   wr |-> NULL, rd |-> {}]

\* struct msm_iommu_map
BlankMap ==
  [st |-> "unalloc", dev |-> NULL, meta |-> NULL, dir |-> "none", nents |-> 0,
   refcount |-> 0, sgl |-> NoSgl]

\* arguments and locals of the four entry points
BlankThread ==
  [pc |-> "idle", op |-> "none", dev |-> NULL, buf |-> NULL, not_lazy |-> 0,
   nents |-> 0, dir |-> "none", meta |-> NULL, map |-> NULL, free_map |-> FALSE,
   ret |-> 0, unmap_list |-> <<>>, meta_node |-> 0, sg |-> NoSgl,
   nmapped |-> 0, unmapped |-> {}]

\* the history a logging run keeps: calls begun, by kind; whether every call
\* began with no other call in flight (serial_calls); dma_map_sg_attrs calls
\* made; the address/length pairs map calls returned
BlankLog ==
  [maps_nl |-> 0, maps_lazy |-> 0, unmaps |-> 0,
   serial_calls |-> TRUE, real_maps |-> 0, sgs |-> {}]

PreInit == [meta |-> [m \in MetaIds |-> BlankMeta],
            map |-> [x \in MapIds |-> BlankMap],
            tree |-> <<>>]

\* ---------------------------------------------------------------- helpers
Range(s) == {s[i] : i \in DOMAIN s}

Min(S) == CHOOSE x \in S : \A y \in S : x <= y

\* what touching a record in state st can do
Outcomes(st) == IF st = "freed" THEN {"stale", "fault"} ELSE {"ok"}

\* ATOMIC_INIT(2 - not_lazy)
InitRefcountSwapped(not_lazy) == 1 + not_lazy
InitRefcount(not_lazy) == 2 - not_lazy

\* the metas msm_iommu_meta_lookup can return for a key: the node nearest the
\* root among those with that key (which one that is depends on the shape the
\* rebalancing gave the tree), or NULL
msm_iommu_meta_lookup(buffer) ==
  LET hit == {m \in Range(tree) : meta[m].buffer = buffer}
  IN  IF hit = {} THEN {NULL} ELSE hit

\* rb_link_node after the descent of msm_iommu_meta_add: left on <, right
\* otherwise, so the new node follows every node whose key is <= its own
TreeInsertNowhere(t, m, buffer) == t
TreeInsert(t, m, buffer) ==
  LET le == {i \in DOMAIN t : meta[t[i]].buffer <= buffer}
      k == IF le = {} THEN 0 ELSE CHOOSE i \in le : \A j \in le : j <= i
  IN  SubSeq(t, 1, k) \o <<m>> \o SubSeq(t, k + 1, Len(t))

RECURSIVE FirstFor(_, _, _)
FirstFor(mp, lst, dev) ==
  IF lst = <<>> THEN NULL
  ELSE IF mp[Head(lst)].dev = dev THEN Head(lst)
  ELSE FirstFor(mp, Tail(lst), dev)

\* list_for_each_entry over meta->maps, first entry of the device
LookupNeverFinds(m, dev) == NULL
msm_iommu_map_lookup(m, dev) == FirstFor(map, meta[m].maps, dev)

\* rb_erase / list_del: the sequence without x
KeepAll(lst, x) == lst
Without(lst, x) == SelectSeq(lst, LAMBDA y : y # x)

\* write_unlock(&meta->lock): the holder the lock has once thread t lets go
StillHeld(t) == t
Released(t) == NULL

\* is record id still pointed to by a thread other than t
MetaPointedTo(t, m) ==
  \/ \E u \in Threads \ {t} : th[u].pc # "idle" /\ th[u].meta = m
  \/ \E x \in MapIds : map[x].st # "unalloc" /\ map[x].meta = m

MapPointedTo(t, x) ==
  \E u \in Threads \ {t} : th[u].pc # "idle" /\ (th[u].map = x \/ x \in Range(th[u].unmap_list))

\* kfree(map) for each map of a set
KfreeMaps(t, S) ==
  [x \in MapIds |->
     IF x \in S
     THEN IF MapPointedTo(t, x) THEN [map[x] EXCEPT !.st = "freed"] ELSE BlankMap
     ELSE map[x]]

\* the arguments dma_unmap_sg is called with for a map
UnmapArgsUnrecorded(x) == [map |-> x, dev |-> NULL, sgl |-> NoSgl, nents |-> 0, dir |-> "none"]
UnmapArgs(x) == [map |-> x, dev |-> map[x].dev, sgl |-> map[x].sgl,
                 nents |-> map[x].nents, dir |-> map[x].dir]

Fault(t) ==
  /\ th' = [th EXCEPT ![t].pc = "fault"]
  /\ uaf' = TRUE
  /\ UNCHANGED <<meta, map, tree, rb_tree_lock, dfree, hk>>

\* ------------------------------------------------------------------- Init
InitCommon ==
  /\ th = [t \in Threads |-> BlankThread]
  /\ meta = [m \in MetaIds |-> BlankMeta]
  /\ map = [x \in MapIds |-> BlankMap]
  /\ tree = <<>>
  /\ rb_tree_lock = {}
  /\ uaf = FALSE
  /\ dfree = FALSE
  /\ nops = 0
  /\ pre = PreInit
  /\ log = BlankLog

Init == InitCommon /\ serial = FALSE /\ logging = FALSE /\ limit = MaxOps
InitSerial == InitCommon /\ serial = TRUE /\ logging = FALSE /\ limit = MaxOpsSerial
InitLong == InitCommon /\ serial = TRUE /\ logging = FALSE /\ limit = MaxOpsLong
InitLog == InitCommon /\ serial = FALSE /\ logging = TRUE /\ limit = MaxOpsLog
InitFair == InitCommon /\ serial = FALSE /\ logging = FALSE /\ limit = MaxOpsFair

\* a call may start: the budget of calls is not used up, and in a serial run
\* no other call is in progress; threads being interchangeable, the call is
\* made by the first idle one
MayCall(t) ==
  /\ th[t].pc = "idle"
  /\ \A u \in Threads : u < t => th[u].pc # "idle"
  /\ nops < limit
  /\ serial => \A u \in Threads : th[u].pc = "idle"

InFlight(op) == {u \in Threads : th[u].op = op}

Logged(t, r) ==
  [log EXCEPT
     !.maps_nl = IF r.op = "map" /\ r.not_lazy = 1 THEN @ + 1 ELSE @,
     !.maps_lazy = IF r.op = "map" /\ r.not_lazy = 0 THEN @ + 1 ELSE @,
     !.unmaps = IF r.op = "unmap" THEN @ + 1 ELSE @,
     !.serial_calls = @ /\ \A u \in Threads : th[u].pc = "idle"]

Enter(t, r) ==
  /\ th' = [th EXCEPT ![t] = r]
  /\ nops' = nops + 1
  /\ pre' = IF serial THEN [meta |-> meta, map |-> map, tree |-> tree] ELSE pre
  /\ log' = IF logging THEN Logged(t, r) ELSE log
  /\ UNCHANGED <<meta, map, tree, rb_tree_lock, uaf, dfree, limit, serial, logging>>

\* Devices are only ever compared for equality, and so are device addresses:
\* a call names a device some record or call in flight already names, or the
\* first device none of them names; the platform hands out an address some
\* map already has, or the first address none has.
DevicesNamed ==
  {map[x].dev : x \in {y \in MapIds : map[y].st # "unalloc"}}
    \cup {th[u].dev : u \in {v \in Threads : th[v].dev # NULL}}
AddrsNamed ==
  {map[x].sgl.dma_address : x \in {y \in MapIds : map[y].st # "unalloc"}}
    \cup {th[u].sg.dma_address : u \in {v \in Threads : th[v].sg # NoSgl}}
UpToFirstNew(S, named) ==
  (S \cap named) \cup (IF S \ named = {} THEN {} ELSE {Min(S \ named)})

\* devices and buffers a call can name; a logging run uses one of each
CallDevices == IF logging THEN {1} ELSE UpToFirstNew(Devices, DevicesNamed)
CallBuffers == IF logging THEN {1} ELSE Buffers


\* ------------------------------------------------------------ entry points
\* records a map call may still need: one meta and one map per call in flight
FreeMetas == {m \in MetaIds : meta[m].st = "unalloc"}
FreeMaps == {x \in MapIds : map[x].st = "unalloc"}
MapsInFlight == InFlight("map")

\* msm_dma_map_sg_attrs(dev, sg, nents, dir, dma_buf, attrs) is called; in a
\* logging run, before any unmap
CallMap(t) ==
  /\ MayCall(t)
  /\ logging => log.unmaps = 0
  /\ Cardinality(FreeMetas) > Cardinality(MapsInFlight)
  /\ Cardinality(FreeMaps) > Cardinality(MapsInFlight)
  /\ \E dev \in CallDevices, buf \in CallBuffers, nl \in {0, 1} :
       Enter(t, [BlankThread EXCEPT !.pc = "map_lookup", !.op = "map", !.dev = dev,
                                    !.buf = buf, !.not_lazy = nl,
                                    !.nents = NentsOf(buf), !.dir = DirOf(dev)])

\* msm_dma_unmap_sg(dev, sgl, nents, dir, dma_buf) is called; the function
\* reads neither its sgl nor its nents nor its dir argument; in a logging run,
\* with no other call in flight
CallUnmap(t) ==
  /\ MayCall(t)
  /\ logging => \A u \in Threads : th[u].pc = "idle"
  /\ \E dev \in CallDevices, buf \in CallBuffers :
       Enter(t, [BlankThread EXCEPT !.pc = "unmap_lookup", !.op = "unmap", !.dev = dev,
                                    !.buf = buf])

\* msm_dma_unmap_all_for_dev(dev) is called
CallUnmapAll(t) ==
  /\ MayCall(t)
  /\ \E dev \in CallDevices :
       Enter(t, [BlankThread EXCEPT !.pc = "all_rdlock", !.op = "unmap_all", !.dev = dev])

\* msm_dma_buf_freed(buffer) is called
CallFreed(t) ==
  /\ MayCall(t)
  /\ \E buf \in CallBuffers :
       Enter(t, [BlankThread EXCEPT !.pc = "freed_lookup", !.op = "freed", !.buf = buf])

\* the call returns to its caller
Return(t) ==
  /\ th[t].pc = "ret"
  /\ th' = [th EXCEPT ![t] = BlankThread]
  /\ pre' = PreInit
  /\ log' = IF logging
            THEN [log EXCEPT !.real_maps = @ + th[t].nmapped,
                             !.sgs = IF th[t].op = "map" THEN @ \cup {th[t].sg} ELSE @]
            ELSE log
  /\ UNCHANGED <<meta, map, tree, rb_tree_lock, uaf, dfree, nops, limit, serial, logging>>

\* ---------------------------------------------------- msm_dma_map_sg_attrs
\* line 121: meta = msm_iommu_meta_lookup(dma_buf->priv)
map_lookup(t) ==
  /\ th[t].pc = "map_lookup"
  /\ \E m \in msm_iommu_meta_lookup(th[t].buf) :
       th' = [th EXCEPT ![t].meta = m,
                        ![t].pc = IF m # NULL THEN "map_inc" ELSE "map_alloc_meta"]
  /\ UNCHANGED <<meta, map, tree, rb_tree_lock, uaf, dfree, hk>>

\* line 123: atomic_inc(&meta->refcount)
map_inc(t) ==
  /\ th[t].pc = "map_inc"
  /\ LET m == th[t].meta IN
     \E oc \in Outcomes(meta[m].st) :
       IF oc = "fault" THEN Fault(t)
       ELSE /\ meta' = [meta EXCEPT ![m].refcount = @ + 1]
            /\ th' = [th EXCEPT ![t].pc = "map_rdlock"]
            /\ uaf' = (uaf \/ oc = "stale")
            /\ UNCHANGED <<map, tree, rb_tree_lock, dfree, hk>>

\* line 124: read_lock(&meta->lock)
map_rdlock(t) ==
  /\ th[t].pc = "map_rdlock"
  /\ LET m == th[t].meta IN
     /\ meta[m].wr = NULL
     /\ \E oc \in Outcomes(meta[m].st) :
          IF oc = "fault" THEN Fault(t)
          ELSE /\ meta' = [meta EXCEPT ![m].rd = @ \cup {t}]
               /\ th' = [th EXCEPT ![t].pc = "map_find"]
               /\ uaf' = (uaf \/ oc = "stale")
               /\ UNCHANGED <<map, tree, rb_tree_lock, dfree, hk>>

\* lines 125-128: look the device's map up, take a reference, read_unlock
map_find(t) ==
  /\ th[t].pc = "map_find"
  /\ LET m == th[t].meta
         x == msm_iommu_map_lookup(m, th[t].dev)
     IN
     \E oc \in Outcomes(meta[m].st) :
       IF oc = "fault" THEN Fault(t)
       ELSE /\ map' = IF x # NULL THEN [map EXCEPT ![x].refcount = @ + 1] ELSE map
            /\ meta' = [meta EXCEPT ![m].rd = @ \ {t}]
            /\ th' = [th EXCEPT ![t].map = x,
                             ![t].pc = IF x # NULL THEN "map_reuse" ELSE "map_create"]
            /\ uaf' = (uaf \/ oc = "stale")
            /\ UNCHANGED <<tree, rb_tree_lock, dfree, hk>>

\* lines 130-137: kmalloc a meta (retried until it succeeds) and initialise it
map_alloc_meta(t) ==
  /\ th[t].pc = "map_alloc_meta"
  /\ FreeMetas # {}
  /\ \E ok \in BOOLEAN :
       IF ~ok THEN UNCHANGED vars
       ELSE LET m == Min(FreeMetas) IN
            /\ meta' = [meta EXCEPT ![m] =
                          [st |-> "live", buffer |-> th[t].buf,
                           refcount |-> InitRefcount(th[t].not_lazy),
                           maps |-> <<>>, wr |-> NULL, rd |-> {}]]
            /\ th' = [th EXCEPT ![t].meta = m, ![t].pc = "map_meta_add"]
            /\ UNCHANGED <<map, tree, rb_tree_lock, uaf, dfree, hk>>

\* lines 139-140: msm_iommu_meta_add(meta) under the write lock; map = NULL
map_meta_add(t) ==
  /\ th[t].pc = "map_meta_add"
  /\ rb_tree_lock = {}
  /\ tree' = TreeInsert(tree, th[t].meta, th[t].buf)
  /\ th' = [th EXCEPT ![t].map = NULL, ![t].pc = "map_create"]
  /\ UNCHANGED <<meta, map, rb_tree_lock, uaf, dfree, hk>>

\* lines 143-147: a map was found: hand out its cached address and length
map_reuse(t) ==
  /\ th[t].pc = "map_reuse"
  /\ LET x == th[t].map IN
     \E oc \in Outcomes(map[x].st) :
       IF oc = "fault" THEN Fault(t)
       ELSE /\ th' = [th EXCEPT ![t].sg = map[x].sgl, ![t].ret = th[t].nents,
                                ![t].pc = "ret"]
            /\ uaf' = (uaf \/ oc = "stale")
            /\ UNCHANGED <<meta, map, tree, rb_tree_lock, dfree, hk>>

\* lines 149-166: kmalloc a map and dma_map_sg_attrs (each retried until it
\* succeeds), holding no lock; then initialise the map.  The platform picks
\* the device address; the mapped length is one unit per segment.
map_create(t) ==
  /\ th[t].pc = "map_create"
  /\ FreeMaps # {}
  /\ \E ok \in BOOLEAN, a \in UpToFirstNew(Addrs, AddrsNamed) :
       IF ~ok THEN UNCHANGED vars
       ELSE LET x == Min(FreeMaps)
                sgl == [dma_address |-> a, dma_length |-> th[t].nents]
            IN
            /\ map' = [map EXCEPT ![x] =
                         [st |-> "live", dev |-> th[t].dev, meta |-> th[t].meta,
                          dir |-> th[t].dir, nents |-> th[t].nents,
                          refcount |-> InitRefcount(th[t].not_lazy), sgl |-> sgl]]
            /\ th' = [th EXCEPT ![t].map = x, ![t].sg = sgl, ![t].nmapped = @ + 1,
                                ![t].pc = "map_add_lock"]
            /\ UNCHANGED <<meta, tree, rb_tree_lock, uaf, dfree, hk>>

\* line 81 (from 168): write_lock(&meta->lock)
map_add_lock(t) ==
  /\ th[t].pc = "map_add_lock"
  /\ LET m == th[t].meta IN
     /\ meta[m].wr = NULL /\ meta[m].rd = {}
     /\ \E oc \in Outcomes(meta[m].st) :
          IF oc = "fault" THEN Fault(t)
          ELSE /\ meta' = [meta EXCEPT ![m].wr = t]
               /\ th' = [th EXCEPT ![t].pc = "map_add"]
               /\ uaf' = (uaf \/ oc = "stale")
               /\ UNCHANGED <<map, tree, rb_tree_lock, dfree, hk>>

\* lines 82-83, 171: list_add at the head, write_unlock; return nents
map_add(t) ==
  /\ th[t].pc = "map_add"
  /\ LET m == th[t].meta IN
     \E oc \in Outcomes(meta[m].st) :
       IF oc = "fault" THEN Fault(t)
       ELSE /\ meta' = [meta EXCEPT ![m].maps = <<th[t].map>> \o @, ![m].wr = Released(t)]
            /\ th' = [th EXCEPT ![t].ret = th[t].nents, ![t].pc = "ret"]
            /\ uaf' = (uaf \/ oc = "stale")
            /\ UNCHANGED <<map, tree, rb_tree_lock, dfree, hk>>


\* -------------------------------------------------------- msm_iommu_meta_put
\* the value atomic_dec_and_test / !atomic_dec_return tests: the count is
\* decremented and the result is whether it is now zero
DecAndTestAlways(refcount) == TRUE
DecAndTestNever(refcount) == FALSE
DecAndTest(refcount) == refcount - 1 = 0

\* line 103: if (atomic_dec_return(&meta->refcount)) return
meta_put(t) ==
  /\ th[t].pc = "meta_put"
  /\ LET m == th[t].meta IN
     \E oc \in Outcomes(meta[m].st) :
       IF oc = "fault" THEN Fault(t)
       ELSE /\ meta' = [meta EXCEPT ![m].refcount = @ - 1]
            /\ th' = [th EXCEPT ![t].pc = IF DecAndTest(meta[m].refcount)
                                          THEN "put_erase" ELSE "ret"]
            /\ uaf' = (uaf \/ oc = "stale")
            /\ UNCHANGED <<map, tree, rb_tree_lock, dfree, hk>>

\* lines 106-110: rb_erase under the write lock, then kfree(meta)
put_erase(t) ==
  /\ th[t].pc = "put_erase"
  /\ rb_tree_lock = {}
  /\ LET m == th[t].meta IN
     \E oc \in Outcomes(meta[m].st) :
       IF oc = "fault" THEN Fault(t)
       ELSE /\ tree' = Without(tree, m)
            /\ meta' = [meta EXCEPT ![m] =
                          IF MetaPointedTo(t, m) \/ meta[m].st = "freed"
                          THEN [meta[m] EXCEPT !.st = "freed"] ELSE BlankMeta]
            /\ dfree' = (dfree \/ m \notin Range(tree) \/ meta[m].st = "freed")
            /\ th' = [th EXCEPT ![t].pc = "ret"]
            /\ uaf' = (uaf \/ oc = "stale")
            /\ UNCHANGED <<map, rb_tree_lock, hk>>

\* --------------------------------------------------------- msm_dma_unmap_sg
\* line 181-183: look the meta up; return if there is none
unmap_lookup(t) ==
  /\ th[t].pc = "unmap_lookup"
  /\ \E m \in msm_iommu_meta_lookup(th[t].buf) :
       th' = [th EXCEPT ![t].meta = m,
                        ![t].pc = IF m # NULL THEN "unmap_wrlock" ELSE "ret"]
  /\ UNCHANGED <<meta, map, tree, rb_tree_lock, uaf, dfree, hk>>

\* line 185: write_lock(&meta->lock)
unmap_wrlock(t) ==
  /\ th[t].pc = "unmap_wrlock"
  /\ LET m == th[t].meta IN
     /\ meta[m].wr = NULL /\ meta[m].rd = {}
     /\ \E oc \in Outcomes(meta[m].st) :
          IF oc = "fault" THEN Fault(t)
          ELSE /\ meta' = [meta EXCEPT ![m].wr = t]
               /\ th' = [th EXCEPT ![t].pc = "unmap_body"]
               /\ uaf' = (uaf \/ oc = "stale")
               /\ UNCHANGED <<map, tree, rb_tree_lock, dfree, hk>>

\* lines 187-190: where msm_dma_unmap_sg goes when the device has no map
UnmapMissPutsMeta == "meta_put"
UnmapMiss == "ret"

\* lines 186-195: find the device's map; drop a reference; unlink it if that
\* was the last one; write_unlock
unmap_body(t) ==
  /\ th[t].pc = "unmap_body"
  /\ LET m == th[t].meta
         x == msm_iommu_map_lookup(m, th[t].dev)
     IN
     \E oc \in Outcomes(meta[m].st) :
       IF oc = "fault" THEN Fault(t)
       ELSE /\ IF x = NULL
               THEN /\ meta' = [meta EXCEPT ![m].wr = Released(t)]
                    /\ map' = map
                    /\ th' = [th EXCEPT ![t].pc = UnmapMiss]
               ELSE LET free_map == DecAndTest(map[x].refcount) IN
                    /\ map' = [map EXCEPT ![x].refcount = @ - 1]
                    /\ meta' = [meta EXCEPT ![m].wr = Released(t),
                                            ![m].maps = IF free_map THEN Without(@, x) ELSE @]
                    /\ th' = [th EXCEPT ![t].map = x, ![t].free_map = free_map,
                                        ![t].pc = IF free_map THEN "unmap_free" ELSE "meta_put"]
            /\ uaf' = (uaf \/ oc = "stale")
            /\ UNCHANGED <<tree, rb_tree_lock, dfree, hk>>

\* lines 197-200: dma_unmap_sg and kfree(map), holding no lock
unmap_free(t) ==
  /\ th[t].pc = "unmap_free"
  /\ LET x == th[t].map IN
     /\ map' = KfreeMaps(t, {x})
     /\ th' = [th EXCEPT ![t].unmapped = @ \cup {UnmapArgs(x)}, ![t].pc = "meta_put"]
  /\ UNCHANGED <<meta, tree, rb_tree_lock, uaf, dfree, hk>>

\* ------------------------------------------------ msm_dma_unmap_all_for_dev
\* lines 214-215: read_lock(&rb_tree_lock); meta_node = rb_first(root)
all_rdlock(t) ==
  /\ th[t].pc = "all_rdlock"
  /\ rb_tree_lock' = rb_tree_lock \cup {t}
  /\ th' = [th EXCEPT ![t].meta_node = 1, ![t].pc = "all_next"]
  /\ UNCHANGED <<meta, map, tree, uaf, dfree, hk>>

\* lines 216-218 and 232: at the end of the tree read_unlock; otherwise
\* write_lock the lock of the meta at meta_node
all_next(t) ==
  /\ th[t].pc = "all_next"
  /\ IF th[t].meta_node > Len(tree)
     THEN /\ rb_tree_lock' = rb_tree_lock \ {t}
          /\ th' = [th EXCEPT ![t].meta = NULL, ![t].pc = "all_drain"]
          /\ meta' = meta
     ELSE LET m == tree[th[t].meta_node] IN
          /\ meta[m].wr = NULL /\ meta[m].rd = {}
          /\ meta' = [meta EXCEPT ![m].wr = t]
          /\ th' = [th EXCEPT ![t].meta = m, ![t].pc = "all_scan"]
          /\ rb_tree_lock' = rb_tree_lock
  /\ UNCHANGED <<map, tree, uaf, dfree, hk>>

\* lines 219-230: every map of the device drops a reference; those that reach
\* zero move to the tail of unmap_list, the others set ret = -EINVAL;
\* write_unlock; meta_node = rb_next(meta_node)
all_scan(t) ==
  /\ th[t].pc = "all_scan"
  /\ LET m == th[t].meta
         mine == {x \in Range(meta[m].maps) : map[x].dev = th[t].dev}
         gone == {x \in mine : DecAndTest(map[x].refcount)}
     IN
     /\ map' = [x \in MapIds |-> IF x \in mine THEN [map[x] EXCEPT !.refcount = @ - 1]
                                 ELSE map[x]]
     /\ meta' = [meta EXCEPT ![m].wr = Released(t),
                             ![m].maps = SelectSeq(@, LAMBDA x : x \notin gone)]
     /\ th' = [th EXCEPT ![t].unmap_list = @ \o SelectSeq(meta[m].maps, LAMBDA x : x \in gone),
                         ![t].ret = IF mine # gone THEN -EINVAL ELSE @,
                         ![t].meta_node = @ + 1,
                         ![t].pc = "all_next"]
  /\ UNCHANGED <<tree, rb_tree_lock, uaf, dfree, hk>>

\* lines 234-239: dma_unmap_sg and kfree every map of unmap_list, holding no
\* lock; return ret
all_drain(t) ==
  /\ th[t].pc = "all_drain"
  /\ map' = KfreeMaps(t, Range(th[t].unmap_list))
  /\ th' = [th EXCEPT ![t].unmapped = @ \cup {UnmapArgs(x) : x \in Range(th[t].unmap_list)},
                      ![t].unmap_list = <<>>,
                      ![t].pc = "ret"]
  /\ UNCHANGED <<meta, tree, rb_tree_lock, uaf, dfree, hk>>

\* -------------------------------------------------------- msm_dma_buf_freed
\* lines 249-251: look the meta up; return if there is none
freed_lookup(t) ==
  /\ th[t].pc = "freed_lookup"
  /\ \E m \in msm_iommu_meta_lookup(th[t].buf) :
       th' = [th EXCEPT ![t].meta = m,
                        ![t].pc = IF m # NULL THEN "freed_wrlock" ELSE "ret"]
  /\ UNCHANGED <<meta, map, tree, rb_tree_lock, uaf, dfree, hk>>

\* line 253: write_lock(&meta->lock)
freed_wrlock(t) ==
  /\ th[t].pc = "freed_wrlock"
  /\ LET m == th[t].meta IN
     /\ meta[m].wr = NULL /\ meta[m].rd = {}
     /\ \E oc \in Outcomes(meta[m].st) :
          IF oc = "fault" THEN Fault(t)
          ELSE /\ meta' = [meta EXCEPT ![m].wr = t]
               /\ th' = [th EXCEPT ![t].pc = "freed_body"]
               /\ uaf' = (uaf \/ oc = "stale")
               /\ UNCHANGED <<map, tree, rb_tree_lock, dfree, hk>>

\* lines 254-261: every map drops a reference; those that reach zero move to
\* the tail of unmap_list, the others are only unlinked (list_del_init);
\* write_unlock
freed_body(t) ==
  /\ th[t].pc = "freed_body"
  /\ LET m == th[t].meta
         all == Range(meta[m].maps)
         gone == {x \in all : DecAndTest(map[x].refcount)}
     IN
     \E oc \in Outcomes(meta[m].st) :
       IF oc = "fault" THEN Fault(t)
       ELSE /\ map' = [x \in MapIds |-> IF x \in all THEN [map[x] EXCEPT !.refcount = @ - 1]
                                        ELSE map[x]]
            /\ meta' = [meta EXCEPT ![m].wr = Released(t), ![m].maps = <<>>]
            /\ th' = [th EXCEPT ![t].unmap_list = SelectSeq(meta[m].maps, LAMBDA x : x \in gone),
                                ![t].pc = "freed_drain"]
            /\ uaf' = (uaf \/ oc = "stale")
            /\ UNCHANGED <<tree, rb_tree_lock, dfree, hk>>

\* lines 263-266: dma_unmap_sg and kfree every map of unmap_list, holding no
\* lock; line 268 follows
freed_drain(t) ==
  /\ th[t].pc = "freed_drain"
  /\ map' = KfreeMaps(t, Range(th[t].unmap_list))
  /\ th' = [th EXCEPT ![t].unmapped = @ \cup {UnmapArgs(x) : x \in Range(th[t].unmap_list)},
                      ![t].unmap_list = <<>>,
                      ![t].pc = "meta_put"]
  /\ UNCHANGED <<meta, tree, rb_tree_lock, uaf, dfree, hk>>

\* ------------------------------------------------------------ specification
Next ==
  \E t \in Threads :
    \/ CallMap(t) \/ CallUnmap(t) \/ CallUnmapAll(t) \/ CallFreed(t) \/ Return(t)
    \/ map_lookup(t) \/ map_inc(t) \/ map_rdlock(t) \/ map_find(t)
    \/ map_alloc_meta(t) \/ map_meta_add(t) \/ map_reuse(t) \/ map_create(t)
    \/ map_add_lock(t) \/ map_add(t)
    \/ meta_put(t) \/ put_erase(t)
    \/ unmap_lookup(t) \/ unmap_wrlock(t) \/ unmap_body(t) \/ unmap_free(t)
    \/ all_rdlock(t) \/ all_next(t) \/ all_scan(t) \/ all_drain(t)
    \/ freed_lookup(t) \/ freed_wrlock(t) \/ freed_body(t) \/ freed_drain(t)

\* any interleaving of calls from NThreads threads
Spec == Init /\ [][Next]_vars

\* calls made one after another
SpecSerial == InitSerial /\ [][Next]_vars

\* the same, with a longer run
SpecLong == InitLong /\ [][Next]_vars

\* map and unmap calls alone
NextPair ==
  \E t \in Threads :
    \/ CallMap(t) \/ CallUnmap(t) \/ Return(t)
    \/ map_lookup(t) \/ map_inc(t) \/ map_rdlock(t) \/ map_find(t)
    \/ map_alloc_meta(t) \/ map_meta_add(t) \/ map_reuse(t) \/ map_create(t)
    \/ map_add_lock(t) \/ map_add(t)
    \/ meta_put(t) \/ put_erase(t)
    \/ unmap_lookup(t) \/ unmap_wrlock(t) \/ unmap_body(t) \/ unmap_free(t)

\* maps of one buffer for one device, in any interleaving, and then unmaps of
\* it, one after another, with the history of the calls
SpecLog == InitLog /\ [][NextPair]_vars


\* ------------------------------------------------------------------ claims
AllIdle == \A u \in Threads : th[u].pc = "idle"

\* the metas the index holds for a buffer, and the maps they hold for a device
EntriesFor(buf) == {m \in Range(tree) : meta[m].buffer = buf}
MappingsFor(buf, dev) ==
  {x \in MapIds : \E m \in EntriesFor(buf) : x \in Range(meta[m].maps) /\ map[x].dev = dev}

\* the same in the records as they were when the serial call in progress began
PreEntriesFor(buf) == {m \in Range(pre.tree) : pre.meta[m].buffer = buf}
PreMappingsFor(buf, dev) ==
  {x \in MapIds : \E m \in PreEntriesFor(buf) :
                    x \in Range(pre.meta[m].maps) /\ pre.map[x].dev = dev}
PreMappingsOf(dev) == UNION {PreMappingsFor(b, dev) : b \in Buffers}

\* no meta of the buffer is in the index, and no map record of the device is left
NoneLeft(buf, dev) ==
  /\ EntriesFor(buf) = {}
  /\ \A x \in MapIds : ~(map[x].st = "live" /\ map[x].dev = dev)

\* the index holds one meta for the buffer, it holds one map, the device's, and
\* both have refcount k
OneEntryAt(buf, dev, k) ==
  /\ Cardinality(EntriesFor(buf)) = 1
  /\ Cardinality(MappingsFor(buf, dev)) = 1
  /\ \A m \in EntriesFor(buf) : meta[m].refcount = k /\ Len(meta[m].maps) = 1
  /\ \A x \in MappingsFor(buf, dev) : map[x].refcount = k /\ map[x].st = "live"

\* C1 (Uniqueness), as claimed: in every reachable state of any interleaving,
\* the index holds at most one map for any (buffer, device) pair.  Two racing
\* msm_dma_map_sg_attrs calls on an uncached pair break it.
C1_Uniqueness ==
  \A b \in Buffers, d \in Devices : Cardinality(MappingsFor(b, d)) <= 1

\* C2 (no use-after-free, no double free), as claimed: in any interleaving no
\* thread touches a freed meta or map, and nothing is erased or freed twice.
\* An unmap that frees the meta between another call's lookup and its first
\* access to the meta breaks it.
C2_NoUseAfterFree == ~uaf /\ ~dfree

\* C3 (outer waits for inner), as claimed: a meta is freed only when its list
\* of maps is empty, so no map is left attached to a freed meta.  A meta's
\* refcount grows by one when a second device maps the buffer lazily, while
\* that device's map starts at two; the meta then reaches zero first.
C3_OuterWaitsForInner ==
  \A m \in MetaIds : meta[m].st = "freed" => meta[m].maps = <<>>

\* C4 (drain completeness), as claimed: when msm_dma_buf_freed(B) returns, the
\* index holds no meta for B and no map of B is reachable from it.  The
\* function drops a single reference of the meta, so a meta whose refcount was
\* above one stays in the index.
C4_DrainComplete ==
  \A t \in Threads :
    (th[t].pc = "ret" /\ th[t].op = "freed") =>
      /\ EntriesFor(th[t].buf) = {}
      /\ \A d \in Devices : MappingsFor(th[t].buf, d) = {}

C6_Original ==
  AllIdle =>
    /\ (log.maps_nl = 1 /\ log.maps_lazy = 0 /\ log.unmaps = 0) => OneEntryAt(1, 1, 2)
    /\ (log.maps_nl = 1 /\ log.maps_lazy = 0 /\ log.unmaps = 1) => OneEntryAt(1, 1, 1)
    /\ (log.maps_nl = 1 /\ log.maps_lazy = 0 /\ log.unmaps = 2) => NoneLeft(1, 1)
    /\ (log.maps_nl = 0 /\ log.maps_lazy = 1 /\ log.unmaps = 0) => OneEntryAt(1, 1, 1)
    /\ (log.maps_nl = 0 /\ log.maps_lazy = 1 /\ log.unmaps = 1) => NoneLeft(1, 1)

\* C6, amended: one map of a fresh pair with DMA_ATTR_NO_DELAYED_UNMAP set
\* leaves both refcounts at 1, and one unmap frees both records; one map
\* without it leaves them at 2, the first unmap leaves them at 1 and the
\* second frees both records.
C6_SeedByAttribute ==
  AllIdle =>
    /\ (log.maps_nl = 1 /\ log.maps_lazy = 0 /\ log.unmaps = 0) => OneEntryAt(1, 1, 1)
    /\ (log.maps_nl = 1 /\ log.maps_lazy = 0 /\ log.unmaps = 1) => NoneLeft(1, 1)
    /\ (log.maps_nl = 0 /\ log.maps_lazy = 1 /\ log.unmaps = 0) => OneEntryAt(1, 1, 2)
    /\ (log.maps_nl = 0 /\ log.maps_lazy = 1 /\ log.unmaps = 1) => OneEntryAt(1, 1, 1)
    /\ (log.maps_nl = 0 /\ log.maps_lazy = 1 /\ log.unmaps = 2) => NoneLeft(1, 1)

\* one map without the attribute and two unmaps have returned
C6_Witness ==
  AllIdle /\ log.maps_nl = 0 /\ log.maps_lazy = 1 /\ log.unmaps = 2

\* C7 (cache reuse): when a serial msm_dma_map_sg_attrs call on a pair whose
\* map was attached when the call began returns, it hands out the address and
\* length stored in that map, the map's refcount is one higher, the same map
\* records exist as before, and dma_map_sg_attrs was not called.
C7_CacheReuse ==
  \A t \in Threads :
    (th[t].pc = "ret" /\ th[t].op = "map") =>
      \A x \in PreMappingsFor(th[t].buf, th[t].dev) :
        /\ th[t].sg = pre.map[x].sgl
        /\ map[x].refcount = pre.map[x].refcount + 1
        /\ map[x].sgl = pre.map[x].sgl
        /\ MappingsFor(th[t].buf, th[t].dev) = {x}
        /\ {y \in MapIds : map[y].st # "unalloc"} = {y \in MapIds : pre.map[y].st # "unalloc"}
        /\ th[t].nmapped = 0
        /\ th[t].ret = th[t].nents

\* a map call on a pair that was already mapped is about to return
C7_Witness ==
  \E t \in Threads :
    /\ th[t].pc = "ret" /\ th[t].op = "map"
    /\ PreMappingsFor(th[t].buf, th[t].dev) # {}

\* the calls so far were made one after another: two maps, both with the
\* attribute or both without it, and then unmaps
TwoMapsThenUnmaps(seed) ==
  /\ AllIdle /\ log.serial_calls
  /\ IF seed = 2 THEN log.maps_lazy = 2 /\ log.maps_nl = 0
                 ELSE log.maps_lazy = 0 /\ log.maps_nl = 2

C9_IdempotentUnmap ==
  \A t \in Threads :
    (th[t].pc = "ret" /\ th[t].op = "unmap" /\ PreMappingsFor(th[t].buf, th[t].dev) = {}) =>
      /\ meta = pre.meta /\ map = pre.map /\ tree = pre.tree
      /\ th[t].unmapped = {}
      /\ th[t].ret = 0

\* an unmap for a device without a map, on a buffer that has a meta, is about
\* to return
C9_Witness ==
  \E t \in Threads :
    /\ th[t].pc = "ret" /\ th[t].op = "unmap"
    /\ PreMappingsFor(th[t].buf, th[t].dev) = {}
    /\ PreEntriesFor(th[t].buf) # {}

\* C10 (bulk teardown signalling): when a serial msm_dma_unmap_all_for_dev(D)
\* returns, it returns -EINVAL if and only if some map of D had a refcount
\* above 1 when the call began; every such map is still attached, with one
\* reference fewer; every map of D that had refcount 1 is detached, was handed
\* to dma_unmap_sg and is freed.
C10_BulkTeardown ==
  \A t \in Threads :
    (th[t].pc = "ret" /\ th[t].op = "unmap_all") =>
      LET D == PreMappingsOf(th[t].dev)
          left == {x \in D : pre.map[x].refcount - 1 > 0}
      IN
      /\ th[t].ret = (IF left # {} THEN -EINVAL ELSE 0)
      /\ \A x \in left :
           /\ \E b \in Buffers : x \in MappingsFor(b, th[t].dev)
           /\ map[x].refcount = pre.map[x].refcount - 1
      /\ \A x \in D \ left :
           /\ \A b \in Buffers : x \notin MappingsFor(b, th[t].dev)
           /\ \E a \in th[t].unmapped : a.map = x /\ a.dev = th[t].dev
           /\ map[x].st # "live"

\* a sweep over two buffers, one whose map of the device stays and one whose
\* map of the device goes, is about to return
C10_Witness ==
  \E t \in Threads :
    /\ th[t].pc = "ret" /\ th[t].op = "unmap_all"
    /\ \E b1, b2 \in Buffers :
         /\ b1 # b2
         /\ \E x \in PreMappingsFor(b1, th[t].dev) : pre.map[x].refcount > 1
         /\ \E y \in PreMappingsFor(b2, th[t].dev) : pre.map[y].refcount = 1

\* the locks a thread holds: rb_tree_lock for read (the write sections are
\* single steps), and the rwlock of a meta for write or for read
HoldsIndexLock(t) == t \in rb_tree_lock
MetaLocksHeld(t) == {m \in MetaIds : meta[m].wr = t \/ t \in meta[m].rd}

\* the maps a thread is about to hand to dma_unmap_sg: the one of
\* msm_dma_unmap_sg at line 198, the unmap_list of the other two at 235 / 264
AtRealUnmap(t) ==
  IF th[t].pc = "unmap_free" THEN {th[t].map}
  ELSE IF th[t].pc \in {"all_drain", "freed_drain"} THEN Range(th[t].unmap_list)
  ELSE {}

Attached == UNION {Range(meta[m].maps) : m \in MetaIds}

\* C11 (slow primitives run outside locks): in any interleaving, a thread that
\* is about to call dma_map_sg_attrs (line 150) or dma_unmap_sg (lines 198,
\* 235, 264) holds neither rb_tree_lock nor the lock of any meta, and the maps
\* it is about to unmap are on no meta's list.
C11_PrimitivesOutsideLocks ==
  \A t \in Threads :
    (th[t].pc \in {"map_create", "unmap_free", "all_drain", "freed_drain"}) =>
      /\ ~HoldsIndexLock(t)
      /\ MetaLocksHeld(t) = {}
      /\ AtRealUnmap(t) \cap Attached = {}

\* one thread is about to unmap a map it detached while another thread holds
\* the lock of a meta
C11_Witness ==
  \E t, u \in Threads :
    /\ t # u
    /\ AtRealUnmap(t) # {}
    /\ MetaLocksHeld(u) # {}

\* ------------------------------------------------------- fair scheduling
\* msm_dma_map_sg_attrs calls overlap one another; a call that removes
\* (msm_dma_unmap_sg, msm_dma_unmap_all_for_dev, msm_dma_buf_freed) runs with
\* no other call in flight
Removing == {u \in Threads : th[u].op \in {"unmap", "unmap_all", "freed"}}
CallMapAmongMaps(t) == Removing = {} /\ CallMap(t)
CallUnmapAlone(t) == AllIdle /\ CallUnmap(t)
CallUnmapAllAlone(t) == AllIdle /\ CallUnmapAll(t)
CallFreedAlone(t) == AllIdle /\ CallFreed(t)

\* the steps of a call once it has been made
Step(t) ==
  \/ Return(t)
  \/ map_lookup(t) \/ map_inc(t) \/ map_rdlock(t) \/ map_find(t)
  \/ map_alloc_meta(t) \/ map_meta_add(t) \/ map_reuse(t) \/ map_create(t)
  \/ map_add_lock(t) \/ map_add(t)
  \/ meta_put(t) \/ put_erase(t)
  \/ unmap_lookup(t) \/ unmap_wrlock(t) \/ unmap_body(t) \/ unmap_free(t)
  \/ all_rdlock(t) \/ all_next(t) \/ all_scan(t) \/ all_drain(t)
  \/ freed_lookup(t) \/ freed_wrlock(t) \/ freed_body(t) \/ freed_drain(t)

NextFair ==
  \E t \in Threads :
    \/ CallMapAmongMaps(t) \/ CallUnmapAlone(t) \/ CallUnmapAllAlone(t)
    \/ CallFreedAlone(t)
    \/ Step(t)

\* Every thread keeps running: a step that stays possible is taken.  A step
\* of map_alloc_meta or map_create is one where kmalloc / dma_map_sg_attrs
\* succeeds (a failed try changes nothing), so the retry loops of lines 130,
\* 149 and 150 end; a lock that stays free is granted.
SpecFair == InitFair /\ [][NextFair]_vars /\ \A t \in Threads : WF_vars(Step(t))

\* the thread's msm_dma_map_sg_attrs call is about to return nents, and the
\* map it found or made is on the list of a meta of its buffer in the index
MapDone(t) ==
  /\ th[t].pc = "ret" /\ th[t].op = "map"
  /\ th[t].ret = th[t].nents
  /\ th[t].map \in MappingsFor(th[t].buf, th[t].dev)
  /\ map[th[t].map].st = "live"

\* every live meta is in the index, but for the one a call has allocated and
\* is about to insert (lines 130-139)
NoHalfCreated ==
  \A m \in MetaIds :
    (meta[m].st = "live" /\ m \notin Range(tree)) =>
      \E t \in Threads : th[t].pc = "map_meta_add" /\ th[t].meta = m

PreMappingsOn(buf) == UNION {Range(pre.meta[m].maps) : m \in PreEntriesFor(buf)}

\* C13 (buffer_freed releases every mapping), as claimed: when
\* msm_dma_buf_freed(B) returns, every map that was attached to B's meta when
\* it began, whatever its refcount, has been handed to dma_unmap_sg and its
\* record freed.  A map whose refcount stays above zero after the decrement is
\* only unlinked (list_del_init, line 259), so it breaks it.
C13_FreedReleasesAll ==
  \A t \in Threads :
    (th[t].pc = "ret" /\ th[t].op = "freed") =>
      \A x \in PreMappingsOn(th[t].buf) :
        /\ \E a \in th[t].unmapped : a.map = x
        /\ map[x].st # "live"

\* the maps the call in progress handed to dma_unmap_sg and freed, and by how
\* much the refcount of a meta is below what it was when the serial call began
\* (a freed meta has come down to zero)
Destroyed(t) == {a.map : a \in th[t].unmapped}
RefDrop(m) == pre.meta[m].refcount - meta[m].refcount

\* a removing call is about to return
RemovalReturns(t) == th[t].pc = "ret" /\ th[t].op \in {"unmap", "unmap_all", "freed"}

\* C14 (destruction of a map decrements its owner), as claimed: when a
\* removing call returns, the refcount of every meta has dropped by the number
\* of its maps the call destroyed.
C14_Original ==
  \A t \in Threads :
    RemovalReturns(t) =>
      \A m \in Range(pre.tree) :
        RefDrop(m) = Cardinality({x \in Destroyed(t) : pre.map[x].meta = m})

\* C14, amended: a call destroys exactly the maps it brings to refcount zero,
\* and the drop of a meta's refcount does not count them: msm_dma_unmap_sg
\* drops the buffer's meta by one whenever it finds a map of the device,
\* destroyed or not; msm_dma_unmap_all_for_dev drops no meta;
\* msm_dma_buf_freed drops the buffer's meta by one, however many maps it
\* destroys; no other meta changes.
C14_OnePutPerCall ==
  \A t \in Threads :
    RemovalReturns(t) =>
      LET touched == IF th[t].op = "unmap" THEN PreMappingsFor(th[t].buf, th[t].dev)
                     ELSE IF th[t].op = "unmap_all" THEN PreMappingsOf(th[t].dev)
                     ELSE PreMappingsOn(th[t].buf)
      IN
      /\ Destroyed(t) = {x \in touched : pre.map[x].refcount = 1}
      /\ \A m \in Range(pre.tree) :
           RefDrop(m) =
             IF pre.meta[m].buffer # th[t].buf THEN 0
             ELSE IF th[t].op = "unmap" THEN (IF touched # {} THEN 1 ELSE 0)
             ELSE IF th[t].op = "freed" THEN 1
             ELSE 0

\* msm_dma_buf_freed is about to return after destroying two maps of the
\* buffer
C14_Witness ==
  \E t \in Threads :
    /\ th[t].pc = "ret" /\ th[t].op = "freed"
    /\ Cardinality(Destroyed(t)) = 2

\* C15 (index reachability): whenever no call is in progress, a meta record
\* that exists is in the index if and only if its refcount is above zero;
\* every meta in the index exists, with a refcount above zero, and is there
\* once; a meta that came down to zero has been erased and freed, so a later
\* lookup cannot return it.
C15_IndexReachability ==
  AllIdle =>
    /\ \A m \in MetaIds :
         /\ meta[m].st = "live" => (m \in Range(tree) <=> meta[m].refcount > 0)
         /\ m \in Range(tree) => (meta[m].st = "live" /\ meta[m].refcount > 0)
         /\ meta[m].refcount <= 0 => meta[m].st # "live"
    /\ Cardinality(Range(tree)) = Len(tree)
    /\ \A b \in Buffers : msm_iommu_meta_lookup(b) \subseteq
         {NULL} \cup {m \in MetaIds : meta[m].st = "live" /\ meta[m].refcount > 0}

\* no call is in progress, and a meta that came down to zero has been erased
\* and freed (its record is still pointed to by a map that was left behind)
C15_Witness ==
  /\ AllIdle
  /\ \E m \in MetaIds :
       meta[m].st = "freed" /\ meta[m].refcount = 0 /\ m \notin Range(tree)

\* C16 (index key uniqueness), as claimed: in any interleaving the index holds
\* at most one meta per buffer, and when a call is about to insert a meta
\* (msm_iommu_meta_add, line 139) the index holds none for that buffer.  Two
\* msm_dma_map_sg_attrs calls that both miss in the lookup before either
\* inserts break it.
C16_KeyUnique ==
  /\ \A b \in Buffers : Cardinality(EntriesFor(b)) <= 1
  /\ \A t \in Threads : th[t].pc = "map_meta_add" => EntriesFor(th[t].buf) = {}

\* a list of maps without those of a device
NotOf(mp, lst, dev) == SelectSeq(lst, LAMBDA x : mp[x].dev # dev)

\* C17 (frame of unmap_all_for_device): when a serial
\* msm_dma_unmap_all_for_dev(D) returns, the index is as it was, every meta
\* has the refcount and, among the maps of other devices, the list it had;
\* every map record that was not an attached map of D is as it was; every
\* attached map of D lost exactly one reference, and is off its list (and
\* destroyed) if and only if that brought it to zero.
C17_UnmapAllFrame ==
  \A t \in Threads :
    (th[t].pc = "ret" /\ th[t].op = "unmap_all") =>
      LET D == PreMappingsOf(th[t].dev) IN
      /\ tree = pre.tree
      /\ \A m \in MetaIds :
           /\ meta[m].st = pre.meta[m].st
           /\ meta[m].buffer = pre.meta[m].buffer
           /\ meta[m].refcount = pre.meta[m].refcount
           /\ NotOf(pre.map, meta[m].maps, th[t].dev)
                = NotOf(pre.map, pre.meta[m].maps, th[t].dev)
      /\ \A x \in MapIds \ D : map[x] = pre.map[x]
      /\ \A x \in D :
           IF pre.map[x].refcount = 1
           THEN x \notin Attached /\ x \in Destroyed(t) /\ map[x].st # "live"
           ELSE /\ x \in MappingsFor(meta[pre.map[x].meta].buffer, th[t].dev)
                /\ map[x] = [pre.map[x] EXCEPT !.refcount = @ - 1]

\* a sweep for a device is about to return, and a meta that held a map of the
\* device also holds a map of another device
C17_Witness ==
  \E t \in Threads :
    /\ th[t].pc = "ret" /\ th[t].op = "unmap_all"
    /\ \E m \in Range(pre.tree) :
         /\ \E x \in Range(pre.meta[m].maps) : pre.map[x].dev = th[t].dev
         /\ \E y \in Range(pre.meta[m].maps) : pre.map[y].dev # th[t].dev

\* C18 (attached maps are live): in any interleaving, while the lock of a
\* meta is not held for write, every map on its list is a live record with a
\* refcount of at least one; so the map a msm_dma_map_sg_attrs call is about
\* to find under the read lock (lines 125-127) has a refcount of at least one
\* when the call takes its reference.
C18_AttachedAreLive ==
  /\ \A m \in MetaIds :
       (meta[m].st # "unalloc" /\ meta[m].wr = NULL) =>
         \A x \in Range(meta[m].maps) : map[x].st = "live" /\ map[x].refcount >= 1
  /\ \A t \in Threads :
       th[t].pc = "map_find" =>
         LET x == msm_iommu_map_lookup(th[t].meta, th[t].dev) IN
         x # NULL => (map[x].st = "live" /\ map[x].refcount >= 1)

\* a call has just brought a map to zero and taken it off its list, and the
\* lock is free again, while another thread's map call of the same device is
\* about to look a map up on the same meta
C18_Witness ==
  \E t, u \in Threads :
    /\ th[t].pc = "unmap_free" /\ map[th[t].map].refcount = 0
    /\ meta[th[t].meta].wr = NULL /\ th[u].dev = th[t].dev
    /\ th[u].pc \in {"map_rdlock", "map_find"} /\ th[u].meta = th[t].meta

\* where a thread asks for rb_tree_lock (for read at lines 61 and 214, for
\* write at 41 and 106) and where it asks for the lock of a meta (for read at
\* line 124, for write at 81, 185, 218 and 253)
RequestsIndexLock(t) ==
  th[t].pc \in {"map_lookup", "unmap_lookup", "freed_lookup", "all_rdlock",
                "map_meta_add", "put_erase"}
RequestsMetaLock(t) ==
  \/ th[t].pc \in {"map_rdlock", "map_add_lock", "unmap_wrlock", "freed_wrlock"}
  \/ th[t].pc = "all_next" /\ th[t].meta_node <= Len(tree)

\* the thread waits for a lock that another thread holds
Blocked(t) ==
  \/ th[t].pc = "map_rdlock" /\ meta[th[t].meta].wr # NULL
  \/ /\ th[t].pc \in {"map_add_lock", "unmap_wrlock", "freed_wrlock"}
     /\ (meta[th[t].meta].wr # NULL \/ meta[th[t].meta].rd # {})
  \/ /\ th[t].pc = "all_next" /\ th[t].meta_node <= Len(tree)
     /\ LET m == tree[th[t].meta_node] IN meta[m].wr # NULL \/ meta[m].rd # {}
  \/ th[t].pc \in {"map_meta_add", "put_erase"} /\ rb_tree_lock # {}

Running == {t \in Threads : th[t].pc \notin {"idle", "fault"}}

\* C19 (deadlock freedom): in any interleaving, a thread that asks for
\* rb_tree_lock holds no meta's lock; a thread that asks for a meta's lock
\* holds no other meta's lock; rb_tree_lock is held across steps only by
\* msm_dma_unmap_all_for_dev; and as long as no freed record has been touched,
\* the calls in progress are never all waiting for locks.
C19_DeadlockFree ==
  /\ \A t \in Threads :
       /\ RequestsIndexLock(t) => MetaLocksHeld(t) = {}
       /\ RequestsMetaLock(t) => MetaLocksHeld(t) = {}
       /\ Cardinality(MetaLocksHeld(t)) <= 1
       /\ HoldsIndexLock(t) => th[t].op = "unmap_all"
  /\ (~uaf /\ Running # {}) => \E t \in Running : ~Blocked(t)

\* no freed record has been touched; a sweep holds rb_tree_lock and the lock
\* of a meta, and another call waits for rb_tree_lock to erase or insert
C19_Witness ==
  /\ ~uaf
  /\ \E t, u \in Threads :
       /\ HoldsIndexLock(t) /\ MetaLocksHeld(t) # {}
       /\ th[u].pc \in {"map_meta_add", "put_erase"} /\ Blocked(u)

\* the maps a call has taken off a list to unmap and free them, and has not
\* freed yet: the map of msm_dma_unmap_sg when free_map is set, the
\* unmap_list of the other two
Claimed(t) ==
  IF th[t].pc = "unmap_free" THEN {th[t].map} ELSE Range(th[t].unmap_list)

\* what a record made at lines 150-166 holds: the address and length that
\* dma_map_sg_attrs gave, and the nents and dir of that call
MadeByRealMap(r) ==
  /\ r.dev \in Devices
  /\ r.sgl # NoSgl
  /\ r.nents = r.sgl.dma_length
  /\ r.dir = DirOf(r.dev)

\* C20 (real unmap at most once, matching a real map): in any interleaving,
\* no map is claimed for dma_unmap_sg and kfree by two calls or twice by one;
\* a claimed map is a record that exists (it has not been unmapped or freed
\* before), is on no list any more, and was made by a dma_map_sg_attrs call;
\* and every dma_unmap_sg call was given the device, nents and dir recorded
\* when the map was made.
C20_UnmapOnce ==
  /\ \A t, u \in Threads : t # u => Claimed(t) \cap Claimed(u) = {}
  /\ \A t \in Threads :
       /\ Cardinality(Range(th[t].unmap_list)) = Len(th[t].unmap_list)
       /\ \A x \in Claimed(t) :
            /\ map[x].st = "live"
            /\ x \notin Attached
            /\ MadeByRealMap(map[x])
       /\ \A a \in th[t].unmapped : MadeByRealMap(a)

\* msm_dma_unmap_sg has claimed the map of a meta, and msm_dma_buf_freed,
\* racing on the same meta, has been through its list
C20_Witness ==
  \E t, u \in Threads :
    /\ th[t].pc = "unmap_free"
    /\ th[u].op = "freed" /\ th[u].pc = "freed_drain"
    /\ th[u].meta = th[t].meta

====
